---------------------------- MODULE Spec2Model ----------------------------
(***************************************************************************)
(* A model of the blackjack advisor of src/main.py: the hand evaluator,    *)
(* the excluded view of the shoe ledger, the dealer outcome enumeration,   *)
(* the expected values, get_advice, and the web handler `index` that       *)
(* serves advisory requests and records played cards into the ledger.      *)
(*                                                                         *)
(* Probabilities are floats in the source; here they are exact rationals   *)
(* <<n, d>> in lowest terms with d > 0.  The suit symbols and the Polish   *)
(* labels of the source are written in ASCII ("H" for the heart symbol,    *)
(* "Stoj" for the stand label, "Podwoj" for the double label).             *)
(***************************************************************************)
EXTENDS Integers, Sequences, FiniteSets

VARIABLES
    remaining_global,   \* the persistent ledger: rank -> count
    history,            \* the played cards recorded so far: rank -> how many
    played,             \* the parsed cards of the record request in flight
    pos,                \* how many of them the loop of index has applied
    response,           \* the response of the request handled last
    cards,              \* hand evaluator: the hand given
    value,              \* hand evaluator: the value returned (-1: not yet)
    hand_tuple,         \* dealer enumeration: the hand of the current call
    rem_tuple,          \* dealer enumeration: the remaining table of the call
    probs               \* dealer enumeration: the value the call returns

vars == <<remaining_global, history, played, pos, response,
          cards, value, hand_tuple, rem_tuple, probs>>

webVars == <<remaining_global, history, played, pos, response>>
valueVars == <<cards, value>>
dealerVars == <<hand_tuple, rem_tuple, probs>>

----------------------------------------------------------------------------
(* Ranks, suits and values                                                 *)

RANKS == <<"2", "3", "4", "5", "6", "7", "8", "9", "10", "J", "Q", "K", "A">>

RankSet == {RANKS[i] : i \in 1..Len(RANKS)}

SUITS == <<"H", "C", "S", "D">>

SuitSet == {SUITS[i] : i \in 1..Len(SUITS)}

VALUES ==
    [r \in RankSet |->
        CASE r = "2" -> 2 [] r = "3" -> 3 [] r = "4" -> 4 [] r = "5" -> 5
          [] r = "6" -> 6 [] r = "7" -> 7 [] r = "8" -> 8 [] r = "9" -> 9
          [] r = "10" -> 10 [] r = "J" -> 10 [] r = "Q" -> 10 [] r = "K" -> 10
          [] r = "A" -> 11]

NUM_DECKS == 6

FullShoe == [r \in RankSet |-> 4 * NUM_DECKS]

\* history = []: no card of any rank (the order of the list, which only the
\* rendered page shows, is not kept)
NoCards == [r \in RankSet |-> 0]

----------------------------------------------------------------------------
(* Bounds of the model                                                     *)

\* the longest hand given to the hand evaluator on its own
MaxCards == 3
\* the longest player hand given to get_advice on its own
MaxHand == 3
\* the most cards in a ledger that an advisory request is served from
MaxShoe == 5
\* the longest record request besides the bulk one
MaxPlayed == 2
\* how far below zero a ledger count is followed
MaxDeficit == 1
\* the most cards in a remaining table given to the dealer enumeration
MaxTable == 3

----------------------------------------------------------------------------
(* Exact arithmetic in place of the floats of the source                   *)

Abs(n) == IF n < 0 THEN -n ELSE n

RECURSIVE Gcd(_, _)
Gcd(a, b) == IF b = 0 THEN a ELSE Gcd(b, a % b)

\* n / d in lowest terms, the sign carried by the numerator
Rat(n, d) ==
    LET g == Gcd(Abs(n), Abs(d))
        s == IF d < 0 THEN -1 ELSE 1
    IN  <<(s * n) \div g, (s * d) \div g>>

Zero == <<0, 1>>
One == <<1, 1>>

\* p + q over the least common denominator
RAdd(p, q) ==
    LET g == Gcd(p[2], q[2])
    IN  Rat(p[1] * (q[2] \div g) + q[1] * (p[2] \div g), (p[2] \div g) * q[2])

\* p * q, cancelled crosswise before the products are taken
RMul(p, q) ==
    LET g1 == Gcd(Abs(p[1]), q[2])
        g2 == Gcd(Abs(q[1]), p[2])
    IN  <<(p[1] \div g1) * (q[1] \div g2), (p[2] \div g2) * (q[2] \div g1)>>

RNeg(p) == <<-p[1], p[2]>>
RInt(n) == <<n, 1>>

RLess(p, q) ==
    LET g == Gcd(p[2], q[2])
    IN  p[1] * (q[2] \div g) < q[1] * (p[2] \div g)

RLeq(p, q) ==
    LET g == Gcd(p[2], q[2])
    IN  p[1] * (q[2] \div g) <= q[1] * (p[2] \div g)

----------------------------------------------------------------------------
(* calculate_hand_value                                                    *)

\* the first loop: the total with every Ace at 11
RECURSIVE NominalValue(_)
NominalValue(hand) ==
    IF hand = <<>> THEN 0
    ELSE (IF Head(hand) = "A" THEN 11 ELSE VALUES[Head(hand)])
         + NominalValue(Tail(hand))

\* the first loop: the number of Aces
RECURSIVE AceCount(_)
AceCount(hand) ==
    IF hand = <<>> THEN 0
    ELSE (IF Head(hand) = "A" THEN 1 ELSE 0) + AceCount(Tail(hand))

RepriceOnce(v, aces) == IF v > 21 /\ aces > 0 THEN v - 10 ELSE v

\* the second loop: while value > 21 and aces > 0, an Ace goes from 11 to 1
RECURSIVE AdjustForAces(_, _)
AdjustForAces(v, aces) ==
    IF v > 21 /\ aces > 0 THEN AdjustForAces(v - 10, aces - 1) ELSE v

calculate_hand_value(hand) == AdjustForAces(NominalValue(hand), AceCount(hand))

----------------------------------------------------------------------------
(* The hand evaluator on its own: every hand up to MaxCards cards          *)

RECURSIVE SeqsUpTo(_, _)
SeqsUpTo(S, n) ==
    IF n = 0 THEN {<<>>}
    ELSE LET shorter == SeqsUpTo(S, n - 1)
         IN  shorter \cup {Append(s, x) : s \in {t \in shorter : Len(t) = n - 1}, x \in S}

InitValue ==
    /\ cards \in SeqsUpTo(RankSet, MaxCards)
    /\ value = -1
    /\ remaining_global = FullShoe
    /\ history = NoCards
    /\ played = <<>>
    /\ pos = 0
    /\ response = [kind |-> "none"]
    /\ hand_tuple = <<>>
    /\ rem_tuple = FullShoe
    /\ probs = <<>>

Evaluate ==
    /\ value = -1
    /\ value' = calculate_hand_value(cards)
    /\ UNCHANGED <<cards, webVars, dealerVars>>

NextValue == Evaluate

SpecValue == InitValue /\ [][NextValue]_vars

\* C5's specification of the result, stated without the loop: the totals a
\* hand can be given are the all-Aces-at-1 total plus 10 for each Ace at 11
HardTotal(hand) == NominalValue(hand) - 10 * AceCount(hand)

Totals(hand) == {HardTotal(hand) + 10 * k : k \in 0..AceCount(hand)}

BestTotal(hand) ==
    LET ok == {t \in Totals(hand) : t <= 21}
    IN  IF ok # {} THEN CHOOSE t \in ok : \A u \in ok : u <= t
        ELSE HardTotal(hand)

----------------------------------------------------------------------------
(* Remaining tables (Counter objects keyed by rank)                        *)

\* sum(remaining.values()), a Counter that holds every rank
Total(rem) ==
    rem["2"] + rem["3"] + rem["4"] + rem["5"] + rem["6"] + rem["7"] + rem["8"]
    + rem["9"] + rem["10"] + rem["J"] + rem["Q"] + rem["K"] + rem["A"]

RECURSIVE RemoveCards(_, _)
\* the loop of get_remaining_cards: one unit off for each card, unclamped
RemoveCards(rem, hand) ==
    IF hand = <<>> THEN rem
    ELSE RemoveCards([rem EXCEPT ![Head(hand)] = @ - 1], Tail(hand))

\* get_remaining_cards with the ledger aliased instead of copied
get_remaining_cards_alias(dealer_card, player_cards, ledger) ==
    LET remaining == RemoveCards([ledger EXCEPT ![dealer_card] = @ - 1], player_cards)
    IN  [remaining |-> remaining, remaining_global |-> remaining]

\* get_remaining_cards: the view it returns, and the ledger it was given as
\* the call leaves it (the decrements go to a copy)
get_remaining_cards(dealer_card, player_cards, ledger) ==
    LET remaining == RemoveCards([ledger EXCEPT ![dealer_card] = @ - 1], player_cards)
    IN  [remaining |-> remaining, remaining_global |-> ledger]

\* calculate_bust_probability: VALUES[rank] is added to the current value,
\* the Ace at 11, with no re-pricing
calculate_bust_probability(current_value, remaining_cards) ==
    LET total_remaining == Total(remaining_cards)
        busting == [r \in RankSet |->
                       IF current_value + VALUES[r] > 21
                       THEN remaining_cards[r] ELSE 0]
    IN  IF total_remaining = 0 THEN Zero
        ELSE Rat(Total(busting), total_remaining)

----------------------------------------------------------------------------
(* The dealer outcome distribution                                         *)
(*                                                                         *)
(* A distribution is what _dealer_probs_recursive returns: a tuple of      *)
(* (key, probability) pairs, in the order the keys were first added.       *)

\* the outcome keys: the string 'bust', or an int
BustKey == [kind |-> "bust"]
IntKey(v) == [kind |-> "int", value |-> v]

\* a one-entry result such as (('bust', 1.0),)
Certain(k) == <<<<k, One>>>>

\* the keys of a distribution
Keys(d) == {d[j][1] : j \in 1..Len(d)}

\* the place of key k in d, 0 when it has none
IndexOf(d, k) ==
    IF \E j \in 1..Len(d) : d[j][1] = k
    THEN CHOOSE j \in 1..Len(d) : d[j][1] = k
    ELSE 0

\* probs[k] += x on a Counter: a missing key starts at 0 and goes last
CounterAdd(d, k, x) ==
    LET j == IndexOf(d, k)
    IN  IF j = 0 THEN Append(d, <<k, x>>)
        ELSE [d EXCEPT ![j] = <<k, RAdd(d[j][2], x)>>]

RECURSIVE AddWeighted(_, _, _, _)
\* for k, p in sub_probs: probs[k] += p * (count / total), from entry j on
\* (Len(acc) >= 0 is true of every tuple: it has TLC evaluate the Counter at
\* each turn of the loop, as the source does, not at the end of it)
AddWeighted(acc, sub, weight, j) ==
    IF Len(acc) >= 0 /\ j > Len(sub) THEN acc
    ELSE AddWeighted(CounterAdd(acc, sub[j][1], RMul(sub[j][2], weight)),
                     sub, weight, j + 1)

\* the order of tuple(sorted(remaining.items())): the ranks as strings
SortedRanks == <<"10", "2", "3", "4", "5", "6", "7", "8", "9", "A", "J", "K", "Q">>

\* the dealer hits on 17 as well
DealerStandsAbove17(v) == v > 17

\* the stand test of the dealer, `value >= 17`
DealerStands(v) == v >= 17

\* the ranks the loop of _dealer_probs_recursive recurses on: count == 0 is
\* skipped, a negative count is not
Drawable(rem) == {r \in RankSet : rem[r] # 0}

\* the early returns of _dealer_probs_recursive: bust, stand, empty table
IsTerminal(hand, rem) ==
    \/ calculate_hand_value(hand) > 21
    \/ DealerStands(calculate_hand_value(hand))
    \/ Total(rem) = 0

\* the ranks the loop does not skip, in the order it meets them
DrawOrder(rem) == SelectSeq(SortedRanks, LAMBDA r : r \in Drawable(rem))

RECURSIVE dealer_probs_recursive(_, _)

\* sub_probs of every turn of the loop, in the order of the loop (\o <<>>
\* has TLC evaluate each of them once, here)
SubProbs(hand, rem) ==
    [i \in 1..Len(DrawOrder(rem)) |->
        dealer_probs_recursive(Append(hand, DrawOrder(rem)[i]),
                               [rem EXCEPT ![DrawOrder(rem)[i]] = @ - 1])] \o <<>>

RECURSIVE DealerLoop(_, _, _, _, _)
\* the loop `for rank, count in rem_cards.items()` over the ranks it does not
\* skip, from the i-th of them on (Len(acc) >= 0: as in AddWeighted)
DealerLoop(rem, total, subs, i, acc) ==
    IF Len(acc) >= 0 /\ i > Len(subs) THEN acc
    ELSE DealerLoop(rem, total, subs, i + 1,
             AddWeighted(acc, subs[i], Rat(rem[DrawOrder(rem)[i]], total), 1))

dealer_probs_recursive(hand, rem) ==
    LET v == calculate_hand_value(hand)
        total == Total(rem)
    IN  IF v > 21 THEN Certain(BustKey)
        ELSE IF DealerStands(v) THEN Certain(IntKey(v))
        ELSE IF total = 0 THEN Certain(IntKey(v))
        ELSE DealerLoop(rem, total, SubProbs(hand, rem), 1, <<>>)

calculate_dealer_probabilities(dealer_card, remaining_cards) ==
    dealer_probs_recursive(<<dealer_card>>, remaining_cards)

----------------------------------------------------------------------------
(* Expected values                                                         *)

\* what one entry of the dealer's distribution adds to the EV of standing
StandTerm(player_value, entry) ==
    IF entry[1].kind = "bust" THEN entry[2]
    ELSE IF entry[1].value > player_value THEN RNeg(entry[2])
    ELSE IF entry[1].value < player_value THEN entry[2]
    ELSE Zero

RECURSIVE RSumUpTo(_, _)
\* terms[1] + ... + terms[j], the `ev += ...` of a loop
RSumUpTo(terms, j) ==
    IF j = 0 THEN Zero ELSE RAdd(RSumUpTo(terms, j - 1), terms[j])

calculate_ev_stand(player_value, dealer_probs) ==
    RSumUpTo([j \in 1..Len(dealer_probs) |->
                 StandTerm(player_value, dealer_probs[j])] \o <<>>,
             Len(dealer_probs))

\* what one turn of the loop of calculate_ev_hit (stake 1) and of
\* calculate_ev_double (stake 2) adds to ev
CardTerm(player_cards, remaining, dealer_probs, stake, rank) ==
    LET new_value == calculate_hand_value(Append(player_cards, rank))
        outcome == IF new_value > 21 THEN RInt(-stake)
                   ELSE RMul(RInt(stake), calculate_ev_stand(new_value, dealer_probs))
    IN  RMul(outcome, Rat(remaining[rank], Total(remaining)))

\* the loop shared by calculate_ev_hit and calculate_ev_double, over the
\* ranks it does not skip
EvOneCard(player_cards, remaining, dealer_probs, stake) ==
    IF Total(remaining) = 0 THEN RInt(-stake)
    ELSE RSumUpTo([i \in 1..Len(DrawOrder(remaining)) |->
                      CardTerm(player_cards, remaining, dealer_probs, stake,
                               DrawOrder(remaining)[i])] \o <<>>,
                  Len(DrawOrder(remaining)))

calculate_ev_hit(player_cards, remaining, dealer_probs) ==
    EvOneCard(player_cards, remaining, dealer_probs, 1)

calculate_ev_double(player_cards, remaining, dealer_probs) ==
    EvOneCard(player_cards, remaining, dealer_probs, 2)

----------------------------------------------------------------------------
(* get_advice                                                              *)

\* max keeps the later option as well when the keys are equal
ReplacesBestOnTie(option, best) == RLeq(best[2], option[2])

\* max(options, key=...) replaces its best only by a strictly greater key
ReplacesBest(option, best) == RLess(best[2], option[2])

RECURSIVE MaxFrom(_, _, _)
MaxFrom(options, i, best) ==
    IF i > Len(options) THEN best
    ELSE MaxFrom(options, i + 1,
                 IF ReplacesBest(options[i], best) THEN options[i] ELSE best)

\* best = max(options, key=lambda x: x[1])
MaxOption(options) == MaxFrom(options, 2, options[1])

\* dealer_probs.get('bust', 0)
GetBust(dealer_probs) ==
    LET j == IndexOf(dealer_probs, BustKey)
    IN  IF j = 0 THEN Zero ELSE dealer_probs[j][2]

\* get_advice: its result, with the locals it was computed from, and the
\* ledger it was given as the call leaves it
get_advice(dealer_card, player_cards, ledger, can_double) ==
    LET player_value == calculate_hand_value(player_cards)
        got == get_remaining_cards(dealer_card, player_cards, ledger)
        remaining == got.remaining
        dealer_probs == calculate_dealer_probabilities(dealer_card, remaining)
        ev_stand == calculate_ev_stand(player_value, dealer_probs)
        ev_hit == calculate_ev_hit(player_cards, remaining, dealer_probs)
        ev_double == calculate_ev_double(player_cards, remaining, dealer_probs)
        options == IF can_double
                   THEN <<<<"Stoj", ev_stand>>, <<"Dobierz", ev_hit>>, <<"Podwoj", ev_double>>>>
                   ELSE <<<<"Stoj", ev_stand>>, <<"Dobierz", ev_hit>>>>
    IN  IF player_value > 21
        THEN [result |-> [kind |-> "busted",
                          dealer_card |-> dealer_card,
                          player_cards |-> player_cards,
                          can_double |-> can_double,
                          player_value |-> player_value],
              remaining_global |-> ledger]
        ELSE [result |-> [kind |-> "report",
                          dealer_card |-> dealer_card,
                          player_cards |-> player_cards,
                          can_double |-> can_double,
                          player_value |-> player_value,
                          remaining |-> remaining,
                          dealer_probs |-> dealer_probs,
                          options |-> options,
                          bust_prob |-> calculate_bust_probability(player_value, remaining),
                          dealer_bust_prob |-> GetBust(dealer_probs),
                          advice |-> MaxOption(options)[1]],
              remaining_global |-> got.remaining_global]

----------------------------------------------------------------------------
(* The dealer enumeration on its own: a walk down the calls of             *)
(* _dealer_probs_recursive, from the call calculate_dealer_probabilities   *)
(* makes on a remaining table of at most MaxTable cards                    *)

\* the ranks the tables of the walk hold cards of
TableRanks == {"6", "10", "A"}

\* a table over all the ranks from one over some of them
Table(t) == [r \in RankSet |-> IF r \in DOMAIN t THEN t[r] ELSE 0]

\* the cards a table holds, a negative count left out
CardsIn(rem) == Total([r \in RankSet |-> IF rem[r] > 0 THEN rem[r] ELSE 0])

\* the tables of the walk: an excluded view may hold a negative count, when
\* the hand excluded is not in the ledger
DealerTables ==
    {rem \in {Table(t) : t \in [TableRanks -> (0 - MaxDeficit)..MaxTable]} :
        CardsIn(rem) <= MaxTable}

InitDealer ==
    /\ \E dealer_card \in RankSet : hand_tuple = <<dealer_card>>
    /\ rem_tuple \in DealerTables
    /\ probs = dealer_probs_recursive(hand_tuple, rem_tuple)
    /\ remaining_global = FullShoe
    /\ history = NoCards
    /\ played = <<>>
    /\ pos = 0
    /\ response = [kind |-> "none"]
    /\ cards = <<>>
    /\ value = -1

\* the recursive call of the loop, for one rank the loop does not skip
Recurse(rank) ==
    /\ ~IsTerminal(hand_tuple, rem_tuple)
    /\ rank \in Drawable(rem_tuple)
    /\ hand_tuple' = Append(hand_tuple, rank)
    /\ rem_tuple' = [rem_tuple EXCEPT ![rank] = @ - 1]
    /\ probs' = dealer_probs_recursive(hand_tuple', rem_tuple')
    /\ UNCHANGED <<webVars, valueVars>>

NextDealer == \E rank \in RankSet : Recurse(rank)

SpecDealer == InitDealer /\ [][NextDealer]_vars

\* C6: in the dealer enumeration a hand that evaluates to 17..21, soft 17
\* included, is terminal: the call returns that value with probability 1 and
\* draws no card onto the hand, whatever the remaining table; a hand above
\* 21 is terminal as bust with probability 1
DealerStandsOn17 ==
    LET v == calculate_hand_value(hand_tuple)
    IN  /\ (v >= 17 /\ v <= 21) =>
               /\ probs = Certain(IntKey(v))
               /\ ~ENABLED NextDealer
        /\ v > 21 =>
               /\ probs = Certain(BustKey)
               /\ ~ENABLED NextDealer

\* the dealer holds a soft 17 while cards remain to be drawn
DealerSoft17Witness ==
    /\ hand_tuple = <<"A", "6">>
    /\ rem_tuple["10"] > 0
    /\ probs = Certain(IntKey(17))

\* C7: every outcome key of the distribution calculate_dealer_probabilities
\* returns is the bust marker or an integer in 17..21, for every dealer rank
\* and every remaining table, the empty one included (stated here of the
\* tables that hold no negative count)
DealerKeysAreTerminal ==
    (Len(hand_tuple) = 1 /\ \A r \in RankSet : rem_tuple[r] >= 0) =>
        \A k \in Keys(probs) :
            k = BustKey \/ (k.kind = "int" /\ k.value \in 17..21)

----------------------------------------------------------------------------
(* get_advice on its own: one call, on a ledger of at most MaxTable cards  *)

\* the ranks of the dealer card and of the player hand of a call
DealerRanks == {"6", "10", "A"}
HandRanks == {"6", "10", "A"}

\* the ledgers of the calls: the record requests take the full shoe down to
\* any table of counts from 0 up
AdviceLedgers == {rem \in DealerTables : \A r \in RankSet : rem[r] >= 0}

InitAdvice ==
    /\ remaining_global \in AdviceLedgers
    /\ response = [kind |-> "none"]
    /\ history = [r \in RankSet |-> FullShoe[r] - remaining_global[r]]
    /\ played = <<>>
    /\ pos = 0
    /\ cards = <<>>
    /\ value = -1
    /\ hand_tuple = <<>>
    /\ rem_tuple = FullShoe
    /\ probs = <<>>

\* the call get_advice(dealer_card, player_cards, remaining_global, can_double)
Advise(dealer_card, player_cards, can_double) ==
    /\ response.kind = "none"
    /\ LET got == get_advice(dealer_card, player_cards, remaining_global, can_double)
       IN  /\ response' = got.result
           /\ remaining_global' = got.remaining_global
    /\ UNCHANGED <<history, played, pos, valueVars, dealerVars>>

NextAdvice ==
    \E d \in DealerRanks, p \in SeqsUpTo(HandRanks, MaxHand), c \in BOOLEAN :
        Advise(d, p, c)

SpecAdvice == InitAdvice /\ [][NextAdvice]_vars

\* the probabilities of a distribution, in the order of its entries
Probabilities(d) == [j \in 1..Len(d) |-> d[j][2]]

\* C1: the dealer distribution an advisory call computes for its excluded
\* view is a probability distribution: every probability lies in [0, 1] and
\* the probabilities sum to exactly 1
DealerDistributionIsProbability ==
    response.kind = "report" =>
        /\ \A j \in 1..Len(response.dealer_probs) :
               /\ RLeq(Zero, response.dealer_probs[j][2])
               /\ RLeq(response.dealer_probs[j][2], One)
        /\ RSumUpTo(Probabilities(response.dealer_probs),
                    Len(response.dealer_probs)) = One

\* C3: an advisory call that asks to exclude more cards of a rank than the
\* ledger holds produces no report: no report is computed from an excluded
\* view that holds a negative count
NoReportFromNegativeView ==
    response.kind = "report" => \A r \in RankSet : response.remaining[r] >= 0

\* C4: an advisory call never changes the persistent ledger: the ledger has
\* the same count for every rank after the call as before it, whatever the
\* dealer card, the player hand and the can_double flag, a busted hand
\* included
AdviceKeepsLedger == [][remaining_global' = remaining_global]_vars

\* a call has excluded the dealer card and a player hand from its view of a
\* ledger that holds cards
AdviceKeepsLedgerWitness ==
    /\ response.kind = "report"
    /\ response.player_cards # <<>>
    /\ Total(remaining_global) > 0
    /\ response.remaining # remaining_global

\* the labels of the actions in the order stand, hit, double
Available(can_double) ==
    IF can_double THEN <<"Stoj", "Dobierz", "Podwoj">> ELSE <<"Stoj", "Dobierz">>

\* C8: for a non-busted advisory call the recommended action is one of the
\* available actions (double only when can_double is true), its EV is at
\* least the EV of every other available action, and no action earlier in
\* the order stand, hit, double has an equal EV
AdviceIsFirstBest ==
    response.kind = "report" =>
        /\ [j \in 1..Len(response.options) |-> response.options[j][1]]
               = Available(response.can_double)
        /\ \E i \in 1..Len(response.options) :
               /\ response.advice = response.options[i][1]
               /\ \A j \in 1..Len(response.options) :
                      RLeq(response.options[j][2], response.options[i][2])
               /\ \A j \in 1..(i - 1) :
                      response.options[j][2] # response.options[i][2]

\* standing and hitting have the same EV, doubling a lower one, and the
\* advice is to stand
AdviceTieWitness ==
    /\ response.kind = "report"
    /\ response.can_double
    /\ response.options[1][2] = response.options[2][2]
    /\ RLess(response.options[3][2], response.options[1][2])
    /\ response.advice = "Stoj"

\* the cards of the table whose addition to the hand makes
\* calculate_hand_value exceed 21
BustingDraws(player_cards, remaining) ==
    Total([r \in RankSet |->
              IF calculate_hand_value(Append(player_cards, r)) > 21
              THEN remaining[r] ELSE 0])

\* C10: the hit-bust probability get_advice reports for a non-busted hand is
\* the number of remaining cards whose addition to the hand makes
\* calculate_hand_value exceed 21, divided by the total of the remaining
\* cards (stated here of the views that hold cards and no negative count)
BustProbabilityCountsBustingDraws ==
    (/\ response.kind = "report"
     /\ Total(response.remaining) > 0
     /\ \A r \in RankSet : response.remaining[r] >= 0) =>
        response.bust_prob =
            Rat(BustingDraws(response.player_cards, response.remaining),
                Total(response.remaining))

----------------------------------------------------------------------------
(* The web handler `index`: advisory requests and record requests          *)

\* the characters of a rank
Chars(rank) == IF rank = "10" THEN <<"1", "0">> ELSE <<rank>>

\* one token of played_str.split(): `c[0] in RANKS and c[1] in SUITS` keeps
\* c[0], `c in RANKS` keeps c, anything else is dropped
ParseToken(c) ==
    IF Len(c) >= 2 /\ c[1] \in RankSet /\ c[2] \in SuitSet THEN <<c[1]>>
    ELSE IF \E r \in RankSet : Chars(r) = c
         THEN <<CHOOSE r \in RankSet : Chars(r) = c>>
    ELSE <<>>

\* the list `played` that the loop over played_str.split() builds
ParsePlayed(tokens) ==
    LET kept == SelectSeq([j \in 1..Len(tokens) |-> ParseToken(tokens[j])],
                          LAMBDA x : x # <<>>)
    IN  [j \in 1..Len(kept) |-> kept[j][1]]

\* remaining_global[c] -= 1 for the cards from place i to place j of played
ApplyPlayed(ledger, cs, i, j) ==
    [r \in RankSet |-> ledger[r] - Cardinality({n \in i..j : cs[n] = r})]

\* history.extend(played)
Extend(h, cs) == [r \in RankSet |-> h[r] + Cardinality({j \in 1..Len(cs) : cs[j] = r})]

\* the shoe that the bulk record request leaves
Residual == Table([r \in {"6", "10", "A"} |-> 1])

\* n tokens c
Copies(c, n) == [j \in 1..n |-> c]

RECURSIVE BulkUpTo(_)
\* the tokens of every card of the full shoe but those of Residual, the
\* ranks in the order of RANKS
BulkUpTo(i) ==
    IF i = 0 THEN <<>>
    ELSE BulkUpTo(i - 1) \o Copies(Chars(RANKS[i]), FullShoe[RANKS[i]] - Residual[RANKS[i]])

\* the tokens a short record request is made of: a rank, a rank with a suit,
\* and a ten with a suit, which the parser drops
RecordTokens == {<<"1", "0">>, <<"A", "S">>, <<"1", "0", "H">>}

\* the played_cards fields of the record requests
PlayedInputs == {BulkUpTo(Len(RANKS))} \cup SeqsUpTo(RecordTokens, MaxPlayed)

\* the dealer_card and player_cards fields of the advisory requests: "1" is
\* no rank
DealerInputs == {<<>>, <<"6", "10">>, <<"6">>}
PlayerInputs == {<<>>, <<"1">>, <<"A">>}

Init ==
    /\ remaining_global = FullShoe
    /\ history = NoCards
    /\ played = <<>>
    /\ pos = 0
    /\ response = [kind |-> "none"]
    /\ cards = <<>>
    /\ value = -1
    /\ hand_tuple = <<>>
    /\ rem_tuple = FullShoe
    /\ probs = <<>>

\* the POST of the advice form.  An advisory request is served while the
\* ledger holds at most MaxShoe cards.
HandleGetAdvice(dealer_selected, player_selected, can_double_checked) ==
    /\ Total(remaining_global) <= MaxShoe
    /\ \/ /\ dealer_selected = <<>>
          /\ player_selected = <<>>
          /\ response' = [kind |-> "none"]
          /\ UNCHANGED remaining_global
       \/ /\ dealer_selected # <<>> \/ player_selected # <<>>
          /\ ~ /\ Len(dealer_selected) = 1
               /\ dealer_selected[1] \in RankSet
               /\ \A j \in 1..Len(player_selected) : player_selected[j] \in RankSet
          /\ response' = [kind |-> "invalid"]
          /\ UNCHANGED remaining_global
       \/ /\ Len(dealer_selected) = 1
          /\ dealer_selected[1] \in RankSet
          /\ \A j \in 1..Len(player_selected) : player_selected[j] \in RankSet
          /\ LET got == get_advice(dealer_selected[1], player_selected,
                                   remaining_global, can_double_checked)
             IN  /\ response' = got.result
                 /\ remaining_global' = got.remaining_global
    /\ UNCHANGED <<history, played, pos, valueVars, dealerVars>>

\* the POST of the history form, up to the first switch to another request:
\* the field is parsed, the history extended and the first k cards taken off
\* the ledger (the first one, or all of them).  The requests followed are
\* those that leave at most MaxShoe cards and no count below -MaxDeficit.
HandleAddHistory(tokens) ==
    /\ played = <<>>
    /\ LET cs == ParsePlayed(tokens)
       IN  IF cs = <<>>
           THEN /\ response' = [kind |-> "bad_history"]
                /\ UNCHANGED <<remaining_global, history, played, pos>>
           ELSE /\ Total(ApplyPlayed(remaining_global, cs, 1, Len(cs))) <= MaxShoe
                /\ \A r \in RankSet :
                       ApplyPlayed(remaining_global, cs, 1, Len(cs))[r] >= 0 - MaxDeficit
                /\ \E k \in {1, Len(cs)} :
                       /\ remaining_global' = ApplyPlayed(remaining_global, cs, 1, k)
                       /\ played' = IF k = Len(cs) THEN <<>> ELSE cs
                       /\ pos' = IF k = Len(cs) THEN 0 ELSE k
                /\ history' = Extend(history, cs)
                /\ response' = [kind |-> "none"]
    /\ UNCHANGED <<valueVars, dealerVars>>

\* the record request in flight runs on for k more cards (one card, or all
\* the cards left) before the next switch
ContinueAddHistory ==
    /\ played # <<>>
    /\ \E k \in {1, Len(played) - pos} :
           /\ remaining_global' = ApplyPlayed(remaining_global, played, pos + 1, pos + k)
           /\ played' = IF pos + k = Len(played) THEN <<>> ELSE played
           /\ pos' = IF pos + k = Len(played) THEN 0 ELSE pos + k
    /\ UNCHANGED <<history, response, valueVars, dealerVars>>

Next ==
    \/ \E d \in DealerInputs, p \in PlayerInputs, c \in BOOLEAN :
           HandleGetAdvice(d, p, c)
    \/ \E t \in PlayedInputs : HandleAddHistory(t)
    \/ ContinueAddHistory

Spec == Init /\ [][Next]_vars

\* C2: after any sequence of record requests from the full shoe every count
\* of the persistent ledger is in 0..4*NUM_DECKS: a record request that
\* names a rank whose count is already 0 is not applied
LedgerCountsInRange ==
    \A r \in RankSet : remaining_global[r] \in 0..(4 * NUM_DECKS)

\* a step in which an advisory request computes a report
ReportStep ==
    /\ response'.kind = "report"
    /\ <<history, played, pos>>' = <<history, played, pos>>

\* some, but not all, of the decrements of the record request in flight have
\* been applied, and the request names no rank beyond what the ledger holds
PartlyApplied ==
    /\ 0 < pos
    /\ pos < Len(played)
    /\ \A r \in RankSet :
           ApplyPlayed(remaining_global, played, pos + 1, Len(played))[r] >= 0

\* C9: the ledger mutation of a record request is atomic with respect to the
\* other requests: no advisory request computes its report from a ledger in
\* which some, but not all, of the decrements of a record request have been
\* applied
AdviceSeesWholeRecords == [][ReportStep => ~PartlyApplied]_vars

=============================================================================
